---- MODULE Spec2Model ----
(***************************************************************************)
(* Model of analysis_student_performance.py: a linear report script over   *)
(* one table (a pandas DataFrame).  Each report section of the script is   *)
(* one action; pc is the position of the script, "failed" is an unhandled  *)
(* exception (the script has no try/except, so any raise ends the run).    *)
(*                                                                         *)
(* Cells.  A cell of the CSV is missing (NaN), an integer or a string.     *)
(* Floating-point results are kept exact: a percentage rounded to two      *)
(* decimals is an integer number of hundredths, an unrounded share is a    *)
(* fraction num/den, a Pearson coefficient r = s / sqrt(d) is the pair     *)
(* (s, d).  NaN results carry nan = TRUE.                                  *)
(***************************************************************************)
EXTENDS Integers, Sequences, FiniteSets, TLC

VARIABLES
    csv,                \* the input file: [columns : Seq(name), rows : Seq(row)]
    SHOW_PLOTS,         \* static flag, assigned at line 23
    SAVE_PLOTS,         \* static flag: << >> until line 115 binds the name, then << value >>
    pc,                 \* position of the script
    err,                \* the exception that ended the run, "" if none
    df,                 \* the DataFrame: [columns, dtypes, rows]
    missing_df,         \* completeness report, a sequence of records
    cat_cols,           \* object-typed columns
    dup_count,          \* df.duplicated().sum()
    dup_subset_count,   \* df.duplicated(subset=existing_id_cols).sum(), -1 when skipped
    num_cols,           \* numeric columns, computed at line 85
    grade_cols,         \* grade columns present, line 92
    validity,           \* grade column -> [low, high]
    pass_fail_norm,     \* normalized pass/fail distribution printed at line 167
    summary_tables,     \* table name -> sequence of [label, count, percent]
    corr_with_G3,       \* correlation report, a sequence of [col, r]
    files,              \* names of the files written so far
    shown,              \* plots displayed interactively so far
    printed             \* section headers printed so far

vars == << csv, SHOW_PLOTS, SAVE_PLOTS, pc, err, df, missing_df, cat_cols,
           dup_count, dup_subset_count, num_cols, grade_cols, validity,
           pass_fail_norm, summary_tables, corr_with_G3, files, shown, printed >>

-----------------------------------------------------------------------------
(* Bounds of the model *)

MaxRows == 3        \* rows of the input tables of the duplicate and correlation scenarios
MaxGradeRows == 4   \* rows of the input tables of the grade scenario
MaxRowsCols == 1    \* rows of the input tables of the column-presence scenario
MaxCols == 3        \* columns of the input tables of the column-presence scenario

(* Program constants *)

PASS_MARK == 10     \* line 166
GRADE_LOW == 0      \* line 95
GRADE_HIGH == 20    \* line 96
DECIMALS == 2       \* lines 47, 176, 185, 196

-----------------------------------------------------------------------------
(* Cells and small helpers *)

Na == [t |-> "na", n |-> 0, s |-> ""]
Int_(n) == [t |-> "int", n |-> n, s |-> ""]
Str(s) == [t |-> "str", n |-> 0, s |-> s]

isna(c) == c.t = "na"

Range(q) == {q[i] : i \in 1..Len(q)}

RECURSIVE SumOver(_, _)
SumOver(S, f) ==
    IF S = {} THEN 0
    ELSE LET x == CHOOSE y \in S : TRUE IN f[x] + SumOver(S \ {x}, f)

RECURSIVE SelectSeq2(_, _)
\* the subsequence of q whose elements are in S (a Python list comprehension)
SelectSeq2(q, S) ==
    IF q = << >> THEN << >>
    ELSE IF Head(q) \in S THEN << Head(q) >> \o SelectSeq2(Tail(q), S)
    ELSE SelectSeq2(Tail(q), S)

Abs(x) == IF x < 0 THEN -x ELSE x
Sign(x) == IF x < 0 THEN -1 ELSE IF x > 0 THEN 1 ELSE 0

\* all orders (sequences without repetition) of the finite set S
Orders(S) ==
    {q \in [1..Cardinality(S) -> S] : \A i, j \in 1..Cardinality(S) : i # j => q[i] # q[j]}

-----------------------------------------------------------------------------
(* The pandas layer: what the library calls used by the script compute *)

ColSet(frame) == Range(frame.columns)
len(frame) == Len(frame.rows)

\* pd.read_csv's type inference for one column: a column holding a string is
\* "object"; a column of no values at all (a table of 0 rows) is "object";
\* integers with a missing value become float64; integers alone int64.
InferDtype(rows, c) ==
    IF \E i \in 1..Len(rows) : rows[i][c].t = "str" THEN "object"
    ELSE IF Len(rows) = 0 THEN "object"
    ELSE IF \E i \in 1..Len(rows) : isna(rows[i][c]) THEN "float64"
    ELSE "int64"

\* a column typed "object" keeps every present cell as its text
AsRead(cell, dtype) ==
    IF dtype = "object" /\ cell.t = "int" THEN Str(ToString(cell.n)) ELSE cell

read_csv(file) ==
    [columns |-> file.columns,
     dtypes  |-> [c \in Range(file.columns) |-> InferDtype(file.rows, c)],
     rows    |-> [i \in 1..Len(file.rows) |->
                    [c \in Range(file.columns) |->
                        AsRead(file.rows[i][c], InferDtype(file.rows, c))]]]

IsNumeric(frame, c) == frame.dtypes[c] \in {"int64", "float64"}

\* df.select_dtypes(include=...).columns.tolist(): the columns in table order
select_object(frame) ==
    SelectSeq2(frame.columns, {c \in ColSet(frame) : frame.dtypes[c] = "object"})
select_number(frame) ==
    SelectSeq2(frame.columns, {c \in ColSet(frame) : IsNumeric(frame, c)})

\* df.isna().sum() for one column
isna_sum(frame, c) == Cardinality({i \in 1..len(frame) : isna(frame.rows[i][c])})

\* round-half-to-even of the non-negative fraction num/den to an integer
RoundHalfEven(num, den) ==
    LET q == num \div den
        r == num % den
    IN  IF 2 * r < den THEN q
        ELSE IF 2 * r > den THEN q + 1
        ELSE IF q % 2 = 0 THEN q ELSE q + 1

RECURSIVE Pow10(_)
Pow10(k) == IF k = 0 THEN 1 ELSE 10 * Pow10(k - 1)

RECURSIVE Gcd(_, _)
Gcd(a, b) == IF b = 0 THEN a ELSE Gcd(b, a % b)
RECURSIVE IsPow2(_)
IsPow2(k) == k = 1 \/ (k > 1 /\ k % 2 = 0 /\ IsPow2(k \div 2))

\* count / n is computed as an IEEE double: it is exact iff the denominator
\* of the reduced fraction is a power of two
DoubleExact(count, n) == IsPow2(n \div Gcd(n, count))

\* np.round(x, 2) = rint(x * 100) / 100 on the double x = (count / n) * 100,
\* as the set of hundredths it can return.  Off a tie the double's error
\* (below 1e-11) cannot change the result.  On a tie (100 * x = k + 1/2) the
\* double is the tie itself when count / n is exact, and rint rounds half to
\* even; otherwise the double lies just beside the tie and the sign of its
\* error, which is not modelled, decides between k and k + 1 (23 of 160
\* gives 14.37, 49 of 160 gives 30.63).
RoundDouble(count, n) ==
    LET num == count * 100 * Pow10(DECIMALS)
        q   == num \div n
    IN  IF 2 * (num % n) = n /\ ~DoubleExact(count, n) THEN {q, q + 1}
        ELSE {RoundHalfEven(num, n)}

\* mutant: the percentage truncated to two decimals instead of rounded
PercentTruncated(count, n) ==
    IF n = 0 THEN {[nan |-> TRUE, h |-> 0]}
    ELSE {[nan |-> FALSE, h |-> (count * 100 * Pow10(DECIMALS)) \div n]}

\* ((count / n) * 100).round(2), in hundredths of a percent, as the set of
\* values it can take; 0/0 is NaN
PercentRounded(count, n) ==
    IF n = 0 THEN {[nan |-> TRUE, h |-> 0]}
    ELSE {[nan |-> FALSE, h |-> v] : v \in RoundDouble(count, n)}

\* mutant: keep=False, every row that agrees with any other row is marked
duplicated_KeepFalse(frame, subset) ==
    {i \in 1..Len(frame.rows) :
        \E j \in 1..Len(frame.rows) :
            j # i /\ \A c \in subset : frame.rows[j][c] = frame.rows[i][c]}

\* df.duplicated(subset).sum(): a row is marked when an EARLIER row agrees
\* with it on every column of the subset (keep='first'; NaN equals NaN)
duplicated(frame, subset) ==
    {i \in 1..len(frame) :
        \E j \in 1..(i - 1) : \A c \in subset : frame.rows[j][c] = frame.rows[i][c]}

\* Series comparison with a number: NaN compares False; a string raises
CmpRaises(frame, c) == \E i \in 1..len(frame) : frame.rows[i][c].t = "str"
lt(cell, k) == cell.t = "int" /\ cell.n < k
gt(cell, k) == cell.t = "int" /\ cell.n > k
ge(cell, k) == cell.t = "int" /\ cell.n >= k

\* series.value_counts(): distinct non-missing cells -> number of rows
\* (the order of the entries is not modelled)
value_counts(frame, c) ==
    LET vals == {frame.rows[i][c] : i \in {j \in 1..len(frame) : ~isna(frame.rows[j][c])}}
    IN  [v \in vals |-> Cardinality({i \in 1..len(frame) : frame.rows[i][c] = v})]

\* series.value_counts(normalize=True) * 100: each count over the number of
\* non-missing values, as an exact fraction of 100
normalize100(counts) ==
    LET total == SumOver(DOMAIN counts, counts)
    IN  [v \in DOMAIN counts |-> [num |-> 100 * counts[v], den |-> total]]

\* Pearson correlation of columns x and y as DataFrame.corr() computes it:
\* over the rows where both are present; NaN when a variance is zero (a
\* constant column, or fewer than two complete rows).  r = s / sqrt(d).
pearson(frame, x, y) ==
    LET P   == {i \in 1..len(frame) : frame.rows[i][x].t = "int" /\ frame.rows[i][y].t = "int"}
        n   == Cardinality(P)
        X   == [i \in P |-> frame.rows[i][x].n]
        Y   == [i \in P |-> frame.rows[i][y].n]
        sx  == SumOver(P, X)
        sy  == SumOver(P, Y)
        sxy == SumOver(P, [i \in P |-> X[i] * Y[i]])
        sxx == SumOver(P, [i \in P |-> X[i] * X[i]])
        syy == SumOver(P, [i \in P |-> Y[i] * Y[i]])
        cov == n * sxy - sx * sy
        vx  == n * sxx - sx * sx
        vy  == n * syy - sy * sy
    IN  IF vx * vy = 0 THEN [nan |-> TRUE, s |-> 0, d |-> 1]
        ELSE [nan |-> FALSE, s |-> cov, d |-> vx * vy]

\* r(a) >= r(b) for two coefficients that are not NaN
CorrGeq(a, b) == Sign(a.s) * a.s * a.s * b.d >= Sign(b.s) * b.s * b.s * a.d
CorrIsOne(a) == ~a.nan /\ a.s > 0 /\ a.s * a.s = a.d

\* sort_values(by="missing_count", ascending=False): the orders of the
\* columns a descending sort may return (the order among ties is the sort
\* algorithm's)
SortedByCountDesc(S, count) ==
    {q \in Orders(S) : \A i \in 1..(Len(q) - 1) : count[q[i]] >= count[q[i + 1]]}

\* mutant: the correlation report sorted ascending
SortedByCorrAsc(S, r) ==
    {q \in Orders(S) :
        \A i \in 1..(Len(q) - 1) :
            \/ r[q[i + 1]].nan
            \/ ~r[q[i]].nan /\ CorrGeq(r[q[i + 1]], r[q[i]])}

\* Series.sort_values(ascending=False): descending, NaN entries last
SortedByCorrDesc(S, r) ==
    {q \in Orders(S) :
        \A i \in 1..(Len(q) - 1) :
            \/ r[q[i + 1]].nan
            \/ ~r[q[i]].nan /\ CorrGeq(r[q[i]], r[q[i + 1]])}

-----------------------------------------------------------------------------
(* The computations of the script *)

\* lines 42-48: one record per column, sorted by missing_count descending
MissingRecord(frame, c, percent) ==
    [col |-> c,
     missing_count |-> isna_sum(frame, c),
     missing_percent |-> percent]

\* the values missing_percent.round(2) can take, column by column
MissingPercents(frame) ==
    LET of(c) == PercentRounded(isna_sum(frame, c), len(frame))
    IN  {f \in [ColSet(frame) -> UNION {of(c) : c \in ColSet(frame)}] :
            \A c \in ColSet(frame) : f[c] \in of(c)}

MissingReports(frame) ==
    LET count == [c \in ColSet(frame) |-> isna_sum(frame, c)]
    IN  {[i \in 1..Len(x[1]) |-> MissingRecord(frame, x[1][i], x[2][x[1][i]])] :
            x \in SortedByCountDesc(ColSet(frame), count) \X MissingPercents(frame)}

\* line 74
potential_id_cols == << "school", "sex", "age", "address", "famsize", "Pstatus" >>
\* line 92
GRADE_NAMES == << "G1", "G2", "G3" >>

\* mutant: the upper bound itself counted as invalid (>= for >)
InvalidHigh_Ge(frame, g) ==
    Cardinality({i \in 1..Len(frame.rows) : ge(frame.rows[i][g], GRADE_HIGH)})
\* mutant: every value that is not <= 20 counted, a missing value included
InvalidHigh_NotLe(frame, g) ==
    Cardinality({i \in 1..Len(frame.rows) :
        ~(frame.rows[i][g].t = "int" /\ frame.rows[i][g].n <= GRADE_HIGH)})

\* lines 95-96: len(df[df[g] < 0]) and len(df[df[g] > 20])
InvalidLow(frame, g) ==
    Cardinality({i \in 1..len(frame) : lt(frame.rows[i][g], GRADE_LOW)})
InvalidHigh(frame, g) ==
    Cardinality({i \in 1..len(frame) : gt(frame.rows[i][g], GRADE_HIGH)})

\* mutant: the pass mark itself counted as a fail (> for >=)
PassFailCell_Gt(cell) == IF gt(cell, PASS_MARK) THEN Int_(1) ELSE Int_(0)
\* mutant: a missing grade kept missing in the label
PassFailCell_KeepNa(cell) ==
    IF isna(cell) THEN Na ELSE IF ge(cell, PASS_MARK) THEN Int_(1) ELSE Int_(0)

\* line 166: (df[target] >= 10).astype(int), for one cell
PassFailCell(cell) == IF ge(cell, PASS_MARK) THEN Int_(1) ELSE Int_(0)

\* line 166: df["pass_fail"] = ..., the derived column appended to the table
WithPassFail(frame, target) ==
    [columns |-> IF "pass_fail" \in ColSet(frame) THEN frame.columns
                 ELSE Append(frame.columns, "pass_fail"),
     dtypes  |-> [c \in ColSet(frame) \cup {"pass_fail"} |->
                    IF c = "pass_fail" THEN "int64" ELSE frame.dtypes[c]],
     rows    |-> [i \in 1..len(frame) |->
                    [c \in ColSet(frame) \cup {"pass_fail"} |->
                        IF c = "pass_fail" THEN PassFailCell(frame.rows[i][target])
                        ELSE frame.rows[i][c]]]]

\* lines 174-176, 183-185, 193-196: value_counts with a rounded percent of
\* ALL rows (len(df)), label -> [count, percent]; the tables it can build
DistTable(frame, c) ==
    LET counts == value_counts(frame, c)
        of(v)  == PercentRounded(counts[v], len(frame))
    IN  {[v \in DOMAIN counts |-> [count |-> counts[v], percent |-> f[v]]] :
            f \in {g \in [DOMAIN counts -> UNION {of(v) : v \in DOMAIN counts}] :
                        \A v \in DOMAIN counts : g[v] \in of(v)}}

\* line 194: .rename(index={0: "fail", 1: "pass"})
RenamePassFail(table) ==
    LET name(v) == IF v = Int_(0) THEN Str("fail") ELSE IF v = Int_(1) THEN Str("pass") ELSE v
    IN  [l \in {name(v) : v \in DOMAIN table} |->
            table[CHOOSE v \in DOMAIN table : name(v) = l]]

\* line 207: df[num_cols].corr()[target].sort_values(ascending=False)
CorrReports(frame, cols, target) ==
    LET r == [c \in Range(cols) |-> pearson(frame, c, target)]
    IN  {[i \in 1..Len(q) |-> [col |-> q[i], r |-> r[q[i]]]] :
            q \in SortedByCorrDesc(Range(cols), r)}

Last(q) == q[Len(q)]

-----------------------------------------------------------------------------
(* Input tables.  A scenario is a set of headers (column orders), a domain *)
(* of cells for every column and a maximal number of rows.                  *)

RowSet(header, dom) ==
    {r \in [Range(header) -> UNION {dom[c] : c \in Range(header)}] :
        \A c \in Range(header) : r[c] \in dom[c]}

EmptyFrame == [columns |-> << >>, dtypes |-> << >>, rows |-> << >>]

\* The state when line 28 is reached: SHOW_PLOTS was assigned at line 23,
\* SAVE_PLOTS is not bound yet.
InitWith(headers, dom, maxrows) ==
    /\ \E h \in headers, n \in 0..maxrows :
          \E rs \in [1..n -> RowSet(h, dom)] : csv = [columns |-> h, rows |-> rs]
    /\ SHOW_PLOTS = FALSE
    /\ SAVE_PLOTS = << >>
    /\ pc = "load"
    /\ err = ""
    /\ df = EmptyFrame
    /\ missing_df = << >>
    /\ cat_cols = << >>
    /\ dup_count = -1
    /\ dup_subset_count = -1
    /\ num_cols = << >>
    /\ grade_cols = << >>
    /\ validity = << >>
    /\ pass_fail_norm = << >>
    /\ summary_tables = << >>
    /\ corr_with_G3 = << >>
    /\ files = {}
    /\ shown = {}
    /\ printed = << >>

-----------------------------------------------------------------------------
(* The script, one action per section *)

\* lines 28-36
Load ==
    /\ pc = "load"
    /\ df' = read_csv(csv)
    /\ printed' = printed \o << "Loading dataset", "First 5 rows", "Info" >>
    /\ pc' = "completeness"
    /\ UNCHANGED << csv, SHOW_PLOTS, SAVE_PLOTS, err, missing_df, cat_cols, dup_count,
                    dup_subset_count, num_cols, grade_cols, validity, pass_fail_norm,
                    summary_tables, corr_with_G3, files, shown >>

\* lines 41-53
Completeness ==
    /\ pc = "completeness"
    /\ missing_df' \in MissingReports(df)
    /\ printed' = Append(printed, "Missing Values (Completeness)")
    /\ files' = files \cup {"missing_values_summary.csv"}
    /\ pc' = "consistency"
    /\ UNCHANGED << csv, SHOW_PLOTS, SAVE_PLOTS, err, df, cat_cols, dup_count,
                    dup_subset_count, num_cols, grade_cols, validity, pass_fail_norm,
                    summary_tables, corr_with_G3, shown >>

\* lines 58-79
Consistency ==
    LET existing_id_cols == SelectSeq2(potential_id_cols, ColSet(df))
    IN  /\ pc = "consistency"
        /\ cat_cols' = select_object(df)
        /\ dup_count' = Cardinality(duplicated(df, ColSet(df)))
        /\ dup_subset_count' =
               IF existing_id_cols # << >>
               THEN Cardinality(duplicated(df, Range(existing_id_cols)))
               ELSE dup_subset_count
        /\ printed' = printed
               \o << "Categorical Columns & Unique Values (Consistency)" >>
               \o select_object(df)
               \o << "Duplicate Rows Check" >>
               \o (IF existing_id_cols # << >> THEN << "Possible duplicates" >> ELSE << >>)
        /\ pc' = "validity"
        /\ UNCHANGED << csv, SHOW_PLOTS, SAVE_PLOTS, err, df, missing_df, num_cols,
                        grade_cols, validity, pass_fail_norm, summary_tables,
                        corr_with_G3, files, shown >>

\* lines 84-99.  df[num_cols].describe() raises on a frame without columns;
\* a comparison of a column holding strings with a number raises at line 95,
\* after the counts of the grade columns before it were printed.
Validity ==
    LET nums   == select_number(df)
        grades == SelectSeq2(GRADE_NAMES, ColSet(df))
        head   == << "Validity Checks for Numeric Columns", "Descriptive Stats" >>
        counts(gs) == [g \in Range(gs) |->
                         [low |-> InvalidLow(df, g), high |-> InvalidHigh(df, g)]]
        \* the grade columns the loop completes before the first one that raises
        done   == SubSeq(grades, 1,
                         (CHOOSE k \in 1..Len(grades) :
                             /\ CmpRaises(df, grades[k])
                             /\ \A j \in 1..(k - 1) : ~CmpRaises(df, grades[j])) - 1)
    IN  /\ pc = "validity"
        /\ num_cols' = nums
        /\ IF nums = << >>
           THEN /\ pc' = "failed"
                /\ err' = "ValueError: Cannot describe a DataFrame without columns"
                /\ printed' = printed \o head
                /\ UNCHANGED << grade_cols, validity >>
           ELSE /\ grade_cols' = grades
                /\ IF \E g \in Range(grades) : CmpRaises(df, g)
                   THEN /\ pc' = "failed"
                        /\ err' = "TypeError: '<' not supported between 'str' and 'int'"
                        /\ validity' = counts(done)
                        /\ printed' = printed \o head \o done
                   ELSE /\ pc' = "absences"
                        /\ err' = err
                        /\ validity' = counts(grades)
                        /\ printed' = printed \o head \o grades
        /\ UNCHANGED << csv, SHOW_PLOTS, SAVE_PLOTS, df, missing_df, cat_cols, dup_count,
                        dup_subset_count, pass_fail_norm, summary_tables, corr_with_G3,
                        files, shown >>

\* lines 102-125; line 115 assigns SAVE_PLOTS = True before line 117 tests it
Absences ==
    /\ pc = "absences"
    /\ printed' = IF "absences" \in ColSet(df)
                  THEN Append(printed, "Absences distribution") ELSE printed
    /\ shown' = IF "absences" \in ColSet(df) /\ SHOW_PLOTS
                THEN shown \cup {"Absences Distribution"} ELSE shown
    /\ SAVE_PLOTS' = << TRUE >>
    /\ files' = IF "absences" \in ColSet(df) /\ SAVE_PLOTS' = << TRUE >>
                THEN files \cup {"plot_absences_histogram.png"} ELSE files
    /\ pc' = "bias"
    /\ UNCHANGED << csv, SHOW_PLOTS, err, df, missing_df, cat_cols, dup_count,
                    dup_subset_count, num_cols, grade_cols, validity, pass_fail_norm,
                    summary_tables, corr_with_G3 >>

\* lines 131-160.  With SHOW_PLOTS on, range(df["age"].min(), ...) at line
\* 150 raises unless the age column is int64: the minimum of a float64
\* column (one with a missing value) is a float.
Bias ==
    LET before == (IF "school" \in ColSet(df) THEN << "School distribution" >> ELSE << >>)
                  \o (IF "sex" \in ColSet(df) THEN << "Sex distribution" >> ELSE << >>)
                  \o (IF "age" \in ColSet(df) THEN << "Age distribution" >> ELSE << >>)
        parent_edu_cols == SelectSeq2(<< "Medu", "Fedu" >>, ColSet(df))
        raises == "age" \in ColSet(df) /\ SHOW_PLOTS /\ df.dtypes["age"] # "int64"
    IN  /\ pc = "bias"
        /\ IF raises
           THEN /\ pc' = "failed"
                /\ err' = "TypeError: 'float' object cannot be interpreted as an integer"
                /\ printed' = printed \o << "Sampling / Demographic Bias Checks" >> \o before
                /\ shown' = shown
           ELSE /\ pc' = "pass_fail"
                /\ err' = err
                /\ printed' = printed \o << "Sampling / Demographic Bias Checks" >> \o before
                                \o parent_edu_cols
                /\ shown' = IF "age" \in ColSet(df) /\ SHOW_PLOTS
                            THEN shown \cup {"Age Distribution"} ELSE shown
        /\ UNCHANGED << csv, SHOW_PLOTS, SAVE_PLOTS, df, missing_df, cat_cols, dup_count,
                        dup_subset_count, num_cols, grade_cols, validity, pass_fail_norm,
                        summary_tables, corr_with_G3, files >>

\* lines 163-167
PassFail ==
    /\ pc = "pass_fail"
    /\ IF grade_cols # << >>
       THEN LET target == Last(grade_cols)
                df2    == WithPassFail(df, target)
            IN  /\ df' = df2
                /\ pass_fail_norm' = normalize100(value_counts(df2, "pass_fail"))
                /\ printed' = Append(printed, "Pass/Fail label")
       ELSE UNCHANGED << df, pass_fail_norm, printed >>
    /\ pc' = "summary"
    /\ UNCHANGED << csv, SHOW_PLOTS, SAVE_PLOTS, err, missing_df, cat_cols, dup_count,
                    dup_subset_count, num_cols, grade_cols, validity, summary_tables,
                    corr_with_G3, files, shown >>

\* lines 171-200: the tables are written whatever the flags
Summary ==
    LET names == (IF "school" \in ColSet(df) THEN {"school_distribution"} ELSE {})
                 \cup (IF "sex" \in ColSet(df) THEN {"sex_distribution"} ELSE {})
                 \cup (IF "pass_fail" \in ColSet(df) THEN {"pass_fail_distribution"} ELSE {})
        tables(n) == IF n = "school_distribution" THEN DistTable(df, "school")
                     ELSE IF n = "sex_distribution" THEN DistTable(df, "sex")
                     ELSE {RenamePassFail(t) : t \in DistTable(df, "pass_fail")}
    IN  /\ pc = "summary"
        /\ summary_tables' \in
               {f \in [names -> UNION {tables(n) : n \in names}] :
                    \A n \in names : f[n] \in tables(n)}
        /\ files' = files
             \cup (IF "school" \in ColSet(df) THEN {"table_school_distribution.csv"} ELSE {})
             \cup (IF "sex" \in ColSet(df) THEN {"table_sex_distribution.csv"} ELSE {})
             \cup (IF "pass_fail" \in ColSet(df) THEN {"table_pass_fail_distribution.csv"} ELSE {})
        /\ printed' = printed
             \o (IF "school" \in ColSet(df) THEN << "School distribution table" >> ELSE << >>)
             \o (IF "sex" \in ColSet(df) THEN << "Sex distribution table" >> ELSE << >>)
             \o (IF "pass_fail" \in ColSet(df) THEN << "Pass/Fail distribution" >> ELSE << >>)
        /\ pc' = "correlation"
        /\ UNCHANGED << csv, SHOW_PLOTS, SAVE_PLOTS, err, df, missing_df, cat_cols,
                        dup_count, dup_subset_count, num_cols, grade_cols, validity,
                        pass_fail_norm, corr_with_G3, shown >>

\* lines 205-211.  num_cols is the list computed at line 85, before the
\* pass_fail column was appended; selecting a target that is not among the
\* numeric columns raises KeyError.
Correlation ==
    /\ pc = "correlation"
    /\ IF grade_cols = << >>
       THEN /\ pc' = "finish"
            /\ UNCHANGED << err, corr_with_G3, files, printed >>
       ELSE IF Last(grade_cols) \notin Range(num_cols)
       THEN /\ pc' = "failed"
            /\ err' = "KeyError: target"
            /\ printed' = Append(printed, "Correlation with final grade (Feature Quality)")
            /\ UNCHANGED << corr_with_G3, files >>
       ELSE /\ pc' = "finish"
            /\ err' = err
            /\ corr_with_G3' \in CorrReports(df, num_cols, Last(grade_cols))
            /\ printed' = Append(printed, "Correlation with final grade (Feature Quality)")
            /\ files' = files \cup {"correlation_with_final_grade.csv"}
    /\ UNCHANGED << csv, SHOW_PLOTS, SAVE_PLOTS, df, missing_df, cat_cols, dup_count,
                    dup_subset_count, num_cols, grade_cols, validity, pass_fail_norm,
                    summary_tables, shown >>

\* line 214
Finish ==
    /\ pc = "finish"
    /\ printed' = Append(printed, "Analysis complete")
    /\ pc' = "done"
    /\ UNCHANGED << csv, SHOW_PLOTS, SAVE_PLOTS, err, df, missing_df, cat_cols, dup_count,
                    dup_subset_count, num_cols, grade_cols, validity, pass_fail_norm,
                    summary_tables, corr_with_G3, files, shown >>

Next ==
    \/ Load
    \/ Completeness
    \/ Consistency
    \/ Validity
    \/ Absences
    \/ Bias
    \/ PassFail
    \/ Summary
    \/ Correlation
    \/ Finish

-----------------------------------------------------------------------------
(* Scenarios *)

\* grades around the pass mark and the domain bounds, one or two grade
\* columns, the second of which may hold text
GradeDom == [c \in {"G1", "G2", "G3"} |->
    IF c = "G3" THEN {Na, Int_(-1), Int_(0), Int_(9), Int_(10), Int_(20), Int_(21)}
    ELSE IF c = "G2" THEN {Na, Int_(9), Int_(10), Str("x")}
    ELSE {Na, Int_(25)}]
GradeHeaders == {<< "G3" >>, << "G1", "G2" >>}

\* a categorical and a grade column, with repeated rows and missing cells
RowDom == [c \in {"school", "G3"} |->
    IF c = "school" THEN {Na, Str("GP"), Str("MS")} ELSE {Na, Int_(10), Int_(25)}]
RowHeaders == {<< "school", "G3" >>}

\* three numeric columns for the correlation report
CorrDom == [c \in {"age", "absences", "G3"} |->
    IF c = "age" THEN {Int_(15), Int_(16)}
    ELSE IF c = "absences" THEN {Int_(0), Int_(4)}
    ELSE {Na, Int_(8), Int_(12)}]
CorrHeaders == {<< "age", "absences", "G3" >>}

\* the expected columns, any few of them present
EXPECTED == << "school", "sex", "age", "address", "famsize", "Pstatus",
               "Medu", "Fedu", "absences", "G1", "G2", "G3" >>
ColDom == [c \in Range(EXPECTED) |->
    IF c \in {"school", "sex", "address", "famsize", "Pstatus"} THEN {Str("x")}
    ELSE IF c = "age" THEN {Na, Int_(17)}
    ELSE {Int_(11)}]
ColHeaders == {SelectSeq2(EXPECTED, S) :
                 S \in {T \in SUBSET Range(EXPECTED) : T # {} /\ Cardinality(T) <= MaxCols}}

Spec      == InitWith(GradeHeaders, GradeDom, MaxGradeRows) /\ [][Next]_vars
SpecRows  == InitWith(RowHeaders, RowDom, MaxRows) /\ [][Next]_vars
SpecCorr  == InitWith(CorrHeaders, CorrDom, MaxRows) /\ [][Next]_vars
SpecCols  == InitWith(ColHeaders, ColDom, MaxRowsCols) /\ [][Next]_vars

-----------------------------------------------------------------------------
(* Properties *)

AfterValidity == pc \in {"absences", "bias", "pass_fail", "summary", "correlation",
                         "finish", "done"}
AfterPassFail == pc \in {"summary", "correlation", "finish", "done"}
AfterSummary  == pc \in {"correlation", "finish", "done"}
AfterCorrelation == pc \in {"finish", "done"}

GradesPresent == Range(GRADE_NAMES) \cap Range(csv.columns)
\* the grade column the label and the correlation are based on
Target == Last(SelectSeq2(GRADE_NAMES, Range(csv.columns)))
Grade(i) == csv.rows[i][Target]
Label(i) == df.rows[i]["pass_fail"]
LabelDerived == AfterPassFail /\ "pass_fail" \in Range(df.columns)

\* C1 as stated: after the pass/fail step, for every row, pass_fail is 1 iff
\* the final grade is >= 10, 0 if the grade is present and < 10, and missing
\* iff the grade is missing.
C1_Original ==
    LabelDerived =>
        \A i \in 1..Len(csv.rows) :
            /\ Label(i) = Int_(1) <=> (Grade(i).t = "int" /\ Grade(i).n >= 10)
            /\ (Grade(i).t = "int" /\ Grade(i).n < 10) => Label(i) = Int_(0)
            /\ isna(Label(i)) <=> isna(Grade(i))

\* C1 amended: after the pass/fail step, for every row, pass_fail is 1 iff
\* the final grade is present and >= 10, and 0 otherwise, a missing final
\* grade included; pass_fail is never missing.
C1_PassFailLabel ==
    LabelDerived =>
        /\ Len(df.rows) = Len(csv.rows)
        /\ \A i \in 1..Len(csv.rows) :
            /\ Label(i) = Int_(1) <=> (Grade(i).t = "int" /\ Grade(i).n >= 10)
            /\ Label(i) = Int_(0) <=> (isna(Grade(i)) \/ (Grade(i).t = "int" /\ Grade(i).n < 10))
            /\ ~isna(Label(i))

C1_Witness ==
    /\ LabelDerived
    /\ \E i, j, k \in 1..Len(csv.rows) :
        /\ isna(Grade(i)) /\ Label(i) = Int_(0)
        /\ Grade(j) = Int_(10) /\ Label(j) = Int_(1)
        /\ Grade(k) = Int_(9) /\ Label(k) = Int_(0)

InRangeCount(g) ==
    Cardinality({i \in 1..Len(csv.rows) :
        csv.rows[i][g].t = "int" /\ csv.rows[i][g].n >= 0 /\ csv.rows[i][g].n <= 20})
NonMissingCount(g) ==
    Cardinality({i \in 1..Len(csv.rows) : csv.rows[i][g].t # "na"})

\* C2: for each grade column present, the reported count of values < 0 plus
\* the reported count of values > 20 plus the number of values in [0, 20]
\* equals the number of non-missing values of the column.
C2_GradeCountsPartition ==
    AfterValidity =>
        /\ DOMAIN validity = GradesPresent
        /\ \A g \in GradesPresent :
              validity[g].low + validity[g].high + InRangeCount(g) = NonMissingCount(g)

C2_Witness ==
    /\ AfterValidity
    /\ "G3" \in DOMAIN validity
    /\ validity["G3"].low = 1
    /\ validity["G3"].high = 1
    /\ \E i, j \in 1..Len(csv.rows) : isna(csv.rows[i]["G3"]) /\ csv.rows[j]["G3"] = Int_(20)

PassFailTable == summary_tables["pass_fail_distribution"]
PercentSum(table) == SumOver(DOMAIN table, [l \in DOMAIN table |-> table[l].percent.h])

\* C10: whenever the label is derived on a table of at least one row, the
\* normalized pass/fail distribution sums to exactly 100 and the percent
\* column of the pass/fail summary table sums to 100 within the rounding to
\* two decimals (0.01), missing final grades included.
C10_PassFailPercentSum ==
    (LabelDerived /\ Len(csv.rows) >= 1) =>
        /\ DOMAIN pass_fail_norm # {}
        /\ \A v \in DOMAIN pass_fail_norm : pass_fail_norm[v].den > 0
        /\ \A v \in DOMAIN pass_fail_norm :
              SumOver(DOMAIN pass_fail_norm, [w \in DOMAIN pass_fail_norm |-> pass_fail_norm[w].num])
                  = 100 * pass_fail_norm[v].den
        /\ AfterSummary =>
              /\ "pass_fail_distribution" \in DOMAIN summary_tables
              /\ \A l \in DOMAIN PassFailTable : ~PassFailTable[l].percent.nan
              /\ Abs(PercentSum(PassFailTable) - 100 * Pow10(DECIMALS)) <= 1

C10_Witness ==
    /\ LabelDerived /\ AfterSummary
    /\ \E i \in 1..Len(csv.rows) : isna(Grade(i))
    /\ DOMAIN PassFailTable = {Str("fail"), Str("pass")}
    /\ PassFailTable[Str("pass")].percent.h = 3333

AfterCompleteness == pc \notin {"load", "completeness"}
AfterConsistency  == pc \notin {"load", "completeness", "consistency"}

MissingIn(c) == Cardinality({i \in 1..Len(csv.rows) : csv.rows[i][c].t = "na"})
ReportColumns == {missing_df[i].col : i \in 1..Len(missing_df)}
ReportCovers ==
    /\ Len(missing_df) = Len(csv.columns)
    /\ ReportColumns = Range(csv.columns)
    /\ \A i \in 1..Len(missing_df) : missing_df[i].missing_count = MissingIn(missing_df[i].col)
ReportSorted ==
    \A i \in 1..(Len(missing_df) - 1) :
        missing_df[i].missing_count >= missing_df[i + 1].missing_count

\* C3 as stated: for a table of at least one row, every column's entry has
\* missing_count = its number of missing cells and missing_percent =
\* 100 * missing_count / row_count exactly, and the entries are ordered by
\* missing_count non-increasing.
C3_Original ==
    (AfterCompleteness /\ Len(csv.rows) >= 1) =>
        /\ ReportCovers
        /\ \A i \in 1..Len(missing_df) :
              /\ ~missing_df[i].missing_percent.nan
              /\ missing_df[i].missing_percent.h * Len(csv.rows)
                    = 100 * 100 * missing_df[i].missing_count
        /\ ReportSorted

\* C3 amended: for a table of at least one row, every column's entry has
\* missing_count = its number of missing cells and missing_percent =
\* 100 * missing_count / row_count rounded to the nearest hundredth (either
\* one when the value lies exactly between two),
\* and the entries are ordered by missing_count non-increasing.
C3_MissingReport ==
    (AfterCompleteness /\ Len(csv.rows) >= 1) =>
        /\ ReportCovers
        /\ \A i \in 1..Len(missing_df) :
              LET h == missing_df[i].missing_percent.h
                  e == h * Len(csv.rows) - 100 * 100 * missing_df[i].missing_count
              IN  /\ ~missing_df[i].missing_percent.nan
                  /\ 2 * Abs(e) <= Len(csv.rows)
        /\ ReportSorted

C3_Witness ==
    /\ AfterCompleteness
    /\ Len(csv.rows) = 3
    /\ Len(missing_df) = 2
    /\ missing_df[1].missing_count = 2 /\ missing_df[1].missing_percent.h = 6667
    /\ missing_df[2].missing_count = 1 /\ missing_df[2].missing_percent.h = 3333

RowsEqual(i, j) == csv.rows[i] = csv.rows[j]

\* C4 as stated: the reported exact-duplicate count equals the number of
\* rows whose full tuple of values matches another row's.
C4_Original ==
    AfterConsistency =>
        dup_count = Cardinality({i \in 1..Len(csv.rows) :
                        \E j \in 1..Len(csv.rows) : j # i /\ RowsEqual(i, j)})

\* C4 amended: the reported exact-duplicate count equals the number of rows
\* whose full tuple of values matches an EARLIER row's, that is the number
\* of rows minus the number of distinct rows (missing cells match each
\* other).
C4_DuplicateCount ==
    AfterConsistency =>
        dup_count = Len(csv.rows) - Cardinality(Range(csv.rows))

C4_Witness ==
    /\ AfterConsistency
    /\ Len(csv.rows) = 3
    /\ RowsEqual(1, 2) /\ RowsEqual(2, 3)
    /\ isna(csv.rows[1]["school"])
    /\ dup_count = 2

EqualPairs == {p \in (1..Len(csv.rows)) \X (1..Len(csv.rows)) : p[1] < p[2] /\ RowsEqual(p[1], p[2])}
OneCopy == Cardinality(EqualPairs) = 1
OneHighG3 ==
    /\ "G3" \in Range(csv.columns)
    /\ Cardinality({i \in 1..Len(csv.rows) :
            csv.rows[i]["G3"].t = "int" /\ csv.rows[i]["G3"].n > 20}) = 1

\* C5: in a table in which exactly one row is an exact copy of one other
\* row and all remaining rows are pairwise distinct, the reported
\* exact-duplicate count is 1; and if exactly one G3 value of that table
\* exceeds 20, the reported G3 "values > 20" count is 1.
C5_OneCopyOneHigh ==
    /\ (AfterConsistency /\ OneCopy) => dup_count = 1
    /\ (AfterValidity /\ OneCopy /\ OneHighG3) =>
            ("G3" \in DOMAIN validity /\ validity["G3"].high = 1)

C5_Witness ==
    /\ AfterValidity /\ OneCopy /\ OneHighG3
    /\ Len(csv.rows) = 3
    /\ dup_count = 1
    /\ validity["G3"].high = 1

\* C6: a table of the expected columns and 0 rows either runs to the final
\* step or stops with an identifiable "empty dataset" error; it never ends
\* through an unrelated failure of a later report step.
C6_EmptyTableHandled ==
    (Len(csv.rows) = 0 /\ pc = "failed") => err = "empty dataset"

CleanTable ==
    /\ Len(csv.rows) >= 1
    /\ \A i \in 1..Len(csv.rows) : \A c \in Range(csv.columns) : ~isna(csv.rows[i][c])
Absent(c) == c \notin Range(csv.columns)

\* C7: whatever subset of the expected columns is absent from the input
\* table (here: a table of at least one row without missing cells), the run
\* completes without failure and each section that depends on an absent
\* column produces no output and no file; in particular the pass/fail and
\* correlation sections are skipped when G3 is absent.
C7_AbsentColumnsSkipped ==
    CleanTable =>
        /\ pc # "failed"
        /\ pc = "done" =>
            /\ Absent("absences") =>
                  /\ "Absences distribution" \notin Range(printed)
                  /\ "plot_absences_histogram.png" \notin files
            /\ Absent("school") =>
                  /\ "School distribution" \notin Range(printed)
                  /\ "table_school_distribution.csv" \notin files
            /\ Absent("sex") =>
                  /\ "Sex distribution" \notin Range(printed)
                  /\ "table_sex_distribution.csv" \notin files
            /\ Absent("age") => "Age distribution" \notin Range(printed)
            /\ Absent("Medu") => "Medu" \notin Range(printed)
            /\ Absent("Fedu") => "Fedu" \notin Range(printed)
            /\ Absent("G3") =>
                  /\ "pass_fail" \notin Range(df.columns)
                  /\ "Pass/Fail label" \notin Range(printed)
                  /\ "table_pass_fail_distribution.csv" \notin files
                  /\ corr_with_G3 = << >>
                  /\ "correlation_with_final_grade.csv" \notin files

RaisedInPlotBlock ==
    pc = "failed" /\ err = "TypeError: 'float' object cannot be interpreted as an integer"

\* C8: every file write is controlled by a static flag, so that a summary
\* table CSV or a histogram image is on disk only when a save flag is on;
\* and the printed report is the same whatever the flags (the flag-guarded
\* blocks print nothing, so this is: no flag-guarded block ends the run).
C8_WritesControlledByFlags ==
    /\ files # {} => SAVE_PLOTS = << TRUE >>
    /\ ~RaisedInPlotBlock

CorrRan == AfterCorrelation /\ grade_cols # << >>
CorrColumns == {corr_with_G3[i].col : i \in 1..Len(corr_with_G3)}
CorrOf(c) == (CHOOSE i \in 1..Len(corr_with_G3) : corr_with_G3[i].col = c)
NumericNow == {c \in Range(df.columns) : df.dtypes[c] \in {"int64", "float64"}}
\* the columns read_csv types as numbers: no string, and at least one row
NumericAsLoaded ==
    {c \in Range(csv.columns) :
        /\ Len(csv.rows) >= 1
        /\ \A i \in 1..Len(csv.rows) : csv.rows[i][c].t # "str"}
TargetValues == {Grade(i).n : i \in {j \in 1..Len(csv.rows) : Grade(j).t = "int"}}

\* C9 as stated: with a final grade column present, the correlation report
\* has one entry for every numeric column of the table as it stands when the
\* correlation step runs, the final grade's own entry is 1.0, and the
\* entries are ordered by value non-increasing.
C9_Original ==
    CorrRan =>
        /\ Len(corr_with_G3) = Cardinality(NumericNow)
        /\ CorrColumns = NumericNow
        /\ Target \in CorrColumns /\ CorrIsOne(corr_with_G3[CorrOf(Target)].r)
        /\ \A i \in 1..(Len(corr_with_G3) - 1) :
              /\ ~corr_with_G3[i].r.nan /\ ~corr_with_G3[i + 1].r.nan
              /\ CorrGeq(corr_with_G3[i].r, corr_with_G3[i + 1].r)

\* C9 amended: with a final grade column present, the correlation report
\* has one entry for every column that was numeric when the table was
\* loaded (the derived pass_fail column has none); the final grade's own
\* entry is 1.0 when the column holds at least two distinct values and NaN
\* otherwise; the entries that are not NaN come first, ordered by value
\* non-increasing, and the NaN entries last.
C9_CorrelationReport ==
    CorrRan =>
        /\ Len(corr_with_G3) = Cardinality(NumericAsLoaded)
        /\ CorrColumns = NumericAsLoaded
        /\ "pass_fail" \in NumericNow /\ "pass_fail" \notin CorrColumns
        /\ Target \in CorrColumns
        /\ IF Cardinality(TargetValues) >= 2
           THEN CorrIsOne(corr_with_G3[CorrOf(Target)].r)
           ELSE corr_with_G3[CorrOf(Target)].r.nan
        /\ \A i \in 1..(Len(corr_with_G3) - 1) :
              \/ corr_with_G3[i + 1].r.nan
              \/ /\ ~corr_with_G3[i].r.nan
                 /\ CorrGeq(corr_with_G3[i].r, corr_with_G3[i + 1].r)

C9_Witness ==
    /\ CorrRan
    /\ Len(corr_with_G3) = 3
    /\ corr_with_G3[1].col = "G3" /\ CorrIsOne(corr_with_G3[1].r)
    /\ ~corr_with_G3[2].r.nan /\ corr_with_G3[2].r.s > 0
    /\ ~CorrIsOne(corr_with_G3[2].r)
    /\ ~corr_with_G3[3].r.nan /\ corr_with_G3[3].r.s < 0

====
